---- MODULE Spec2Model ----
(***************************************************************************)
(* A model of the merge-decision engine of nixpkgs-merge-bot:              *)
(*   - the credential cache (github.py: get_github_client),               *)
(*   - the API gateway (github.py: GithubClient),                         *)
(*   - the issue-comment webhook (webhook/issue_comment.py).              *)
(* Strings of the program are kept as strings; a comment text is a        *)
(* sequence of lexical tokens; an f-string is the sequence of its parts.   *)
(***************************************************************************)
EXTENDS Integers, Sequences, FiniteSets, TLC

VARIABLES
    clock,          \* time.time(), in seconds
    CACHED_CLIENT,  \* github.py:173, <<>> for None, <<client>> otherwise
    minted,         \* number of installation tokens GitHub has issued so far
    history,        \* the last direct calls of get_github_client: what each returned
    requests,       \* the outbound HTTP requests of the current invocation
    db,             \* the pending-merge store: a set of <<head_sha, issue_number>>
    body,           \* the webhook payload being handled, <<>> when idle
    response,       \* the handler's answer for body, <<>> while none
    trace,          \* observation: what GitHub answered to the invocation and what it decided
    callers         \* the callers inside get_github_client: where each stands, its locals

vars ==
    <<clock, CACHED_CLIENT, minted, history, requests, db, body, response, trace, callers>>

----------------------------------------------------------------------------
(* Bounds of the model *)

MaxClock == 602
MaxHistory == 3
MaxMinted == 3
MaxRequests == 3
MaxChunks == 5
MaxStrategies == 2
MaxSuites == 2
MaxCallers == 2
MaxFiles == 2

(* Program constants *)

TokenFreshness == 300

----------------------------------------------------------------------------
(* Small helpers *)

Min(S) == CHOOSE x \in S : \A y \in S : x <= y

Last(s) == s[Len(s)]

Window(s, n) == IF Len(s) <= n THEN s ELSE SubSeq(s, Len(s) - n + 1, Len(s))

RECURSIVE Flatten(_)
Flatten(ss) == IF ss = <<>> THEN <<>> ELSE Head(ss) \o Flatten(Tail(ss))

SeqsUpTo(S, n) == UNION {[1..k -> S] : k \in 0..n}

----------------------------------------------------------------------------
(* Settings *)

settings ==
    [bot_name         |-> "bot",
     github_app_login |-> "NixOS",
     github_app_id    |-> 1]

----------------------------------------------------------------------------
(* github.py: HTTP requests of the API gateway *)

NoData == [none |-> TRUE]

\* `if data:` : None and the empty dict both give no request body
Truthy(data) == data # NoData /\ DOMAIN data # {}

\* GithubClient._request: the request put on the wire (method, url, body)
_request(path, method, data) ==
    [method |-> method,
     path   |-> path,
     body   |-> IF Truthy(data) THEN data ELSE NoData]

get(path) == _request(path, "GET", NoData)

\* A variant of post that, like put, does not hand its data to _request
post_drops_data(path, data) == _request(path, "POST", NoData)

post(path, data) == _request(path, "POST", data)

\* GithubClient.put: the data argument is not handed to _request
put(path, data) == _request(path, "PUT", NoData)

app_installations == get(<<"app", "installations">>)

create_installation_access_token(installation_id) ==
    post(<<"app", "installations", ToString(installation_id), "access_tokens">>,
         [x \in {} |-> x])

pull_request(owner, repo, pr_number) ==
    get(<<"repos", owner, repo, "pulls", ToString(pr_number)>>)

create_issue_comment(owner, repo, issue_number, msg) ==
    post(<<"repos", owner, repo, "issues", ToString(issue_number), "comments">>,
         [body |-> msg])

create_issue_reaction(owner, repo, issue_number, comment_id, reaction) ==
    post(<<"repos", owner, repo, "issues", "comments", ToString(comment_id), "reactions">>,
         [content |-> reaction])

merge_pull_request(owner, repo, pr_number, sha) ==
    put(<<"repos", owner, repo, "pulls", ToString(pr_number), "merge">>,
        [sha |-> sha])

get_statuses_for_commit(owner, repo, sha) ==
    get(<<"repos", owner, repo, "commits", sha, "status">>)

get_check_suites_for_commit(owner, repo, sha) ==
    get(<<"repos", owner, repo, "commits", sha, "check-suites">>)

----------------------------------------------------------------------------
(* github.py: the credential provider *)

\* GithubClient.__init__: the token and the time of construction
GithubClient(api_token, now) == [api_token |-> api_token, token_age |-> now]

\* What GET /app/installations may answer
Installation(login, app_id, id) == [login |-> login, app_id |-> app_id, id |-> id]

InstallationLists ==
    { <<>>,
      <<Installation("NixOS", 1, 7)>>,
      <<Installation("nixos", 1, 8)>>,
      <<Installation("NixOS", 2, 9)>>,
      <<Installation("NixOS", 2, 9), Installation("NixOS", 1, 7)>> }

\* A variant of request_access_token that looks for the account login alone
request_access_token_by_login(app_login, app_id, installations, serial) ==
    LET matching == {i \in 1..Len(installations) : installations[i].login = app_login}
        installation_id == IF matching = {} THEN 0 ELSE installations[Min(matching)].id
    IN  IF installation_id = 0
        THEN [ok |-> FALSE, token |-> 0, requests |-> <<app_installations>>]
        ELSE [ok |-> TRUE, token |-> serial,
              requests |-> <<app_installations,
                             create_installation_access_token(installation_id)>>]

\* request_access_token: the installation loop, then the token exchange.
\* serial is the number of the token GitHub would issue next; installation_id
\* 0 stands for None (`if not installation_id` takes both the same way).
request_access_token(app_login, app_id, installations, serial) ==
    LET matching == {i \in 1..Len(installations) :
                        /\ installations[i].login = app_login
                        /\ installations[i].app_id = app_id}
        installation_id == IF matching = {} THEN 0 ELSE installations[Min(matching)].id
    IN  IF installation_id = 0
        THEN [ok |-> FALSE, token |-> 0, requests |-> <<app_installations>>]
        ELSE [ok |-> TRUE, token |-> serial,
              requests |-> <<app_installations,
                             create_installation_access_token(installation_id)>>]

\* The cache test of get_github_client (github.py:178)
\* A variant of the cache test that leaves out the 300 seconds
cache_fresh_no_window(cache, now) ==
    cache # <<>> /\ cache[1].token_age > now

cache_fresh(cache, now) ==
    cache # <<>> /\ cache[1].token_age + TokenFreshness > now

\* get_github_client, called at time now; a mint that succeeds takes delay
\* seconds before GithubClient(token) stamps token_age. ok = FALSE is the
\* ValueError of request_access_token passing through: nothing is stamped,
\* and the time the failed call took is left to Tick.
get_github_client(cache, now, installations, serial, delay) ==
    IF cache_fresh(cache, now)
    THEN [ok |-> TRUE, client |-> cache, cache |-> cache, minted |-> 0,
          now |-> now, requests |-> <<>>, listed |-> <<>>]
    ELSE LET t == request_access_token(settings.github_app_login,
                                       settings.github_app_id, installations, serial)
         IN  IF t.ok
             THEN [ok |-> TRUE,
                   client |-> <<GithubClient(t.token, now + delay)>>,
                   cache  |-> <<GithubClient(t.token, now + delay)>>,
                   minted |-> 1, now |-> now + delay, requests |-> t.requests,
                   listed |-> <<installations>>]
             ELSE [ok |-> FALSE, client |-> <<>>, cache |-> cache, minted |-> 0,
                   now |-> now, requests |-> t.requests, listed |-> <<installations>>]

\* The observation kept of one call: when it was made, what it returned
CallRecord(at, r, before) ==
    [at |-> at, ok |-> r.ok, client |-> r.client,
     minted_before |-> before, minted_after |-> before + r.minted]

----------------------------------------------------------------------------
(* webhook/issue_comment.py: the text of a comment and the command test *)

AT == "@bot"        \* f"@{bot_name}", the bot's name regex-escaped
SP == " "
NL == "\n"
MERGE == "merge"
WORD == "please"    \* any other text without whitespace
HTML_OPEN == "<!--"
HTML_CLOSE == "-->"
FENCE == "~~~"      \* the delimiter of a fenced code block

Whitespace == {SP, NL}

Positions(s, tok, from) == {j \in from..Len(s) : s[j] = tok}

\* re.sub("(<!--.*?-->)", "", text, flags=re.DOTALL): each leftmost "<!--" is
\* removed with everything up to the nearest "-->" after it
RECURSIVE strip_html_comments(_)
strip_html_comments(text) ==
    LET opens == Positions(text, HTML_OPEN, 1)
    IN  IF opens = {} THEN text
        ELSE LET i == Min(opens)
                 closes == Positions(text, HTML_CLOSE, i + 1)
             IN  IF closes = {} THEN text
                 ELSE SubSeq(text, 1, i - 1)
                        \o strip_html_comments(SubSeq(text, Min(closes) + 1, Len(text)))

\* re.match(rf"@{bot_name}\s+merge", stripped): anchored at the start of the
\* text only; one or more whitespace characters; nothing asked of what follows
command_matches(stripped) ==
    \E k \in 1..Len(stripped) :
        /\ k + 2 <= Len(stripped)
        /\ stripped[1] = AT
        /\ \A j \in 2..(k + 1) : stripped[j] \in Whitespace
        /\ stripped[k + 2] = MERGE

----------------------------------------------------------------------------
(* github/Issue.py *)

\* A variant of is_bot that looks at the login instead of the user type
only_login_decides_bot(json) == json.comment.user.login = "bot"

\* Issue.from_json, the is_bot field (Issue.py:30)
is_bot(json) == json.comment.user.type = "Bot"

\* Issue.from_json
from_json(json) ==
    [action       |-> json.action,
     user_id      |-> json.comment.user.id,
     user_login   |-> json.comment.user.login,
     text         |-> json.comment.body,
     comment_id   |-> json.comment.id,
     repo_owner   |-> json.repository.owner.login,
     repo_name    |-> json.repository.name,
     issue_number |-> json.issue.number,
     is_bot       |-> is_bot(json),
     title        |-> json.issue.title,
     state        |-> json.issue.state]

\* A webhook payload of the issue_comment event
Payload(action, user_type, login, is_pull_request, text) ==
    [action     |-> action,
     comment    |-> [id |-> 11, body |-> text,
                     user |-> [id |-> 3, login |-> login, type |-> user_type]],
     issue      |-> [number |-> 5, title |-> "hello: 1.0 -> 1.1", state |-> "open",
                     pull_request |-> is_pull_request],
     repository |-> [name |-> "nixpkgs", owner |-> [login |-> "NixOS"]]]

----------------------------------------------------------------------------
(* webhook/issue_comment.py: process_pull_request_status *)

CheckSuite(app, status, conclusion) ==
    [app |-> [name |-> app], status |-> status, conclusion |-> conclusion]

\* A variant of conclusion_passes that lets only "success" pass
skipped_counts_as_failure(check_suite) == check_suite.conclusion = "success"

\* issue_comment.py:68-71, negated: the conclusions that do not decline
conclusion_passes(check_suite) ==
    check_suite.conclusion = "success" \/ check_suite.conclusion = "skipped"

\* A variant of check_suite_step in which a suite that is not completed
\* only adds its message
unfinished_keeps_success(acc, check_suite) ==
    IF check_suite.status # "completed"
    THEN [acc EXCEPT
            !.messages = Append(@, <<"Check suite ", check_suite.app.name,
                " is not completed, we will wait for it to finish and if it succeeds we will merge this.">>),
            !.pending = FALSE]
    ELSE IF ~(check_suite.conclusion = "success" \/ check_suite.conclusion = "skipped")
         THEN [acc EXCEPT
                 !.success = FALSE,
                 !.failed = TRUE,
                 !.messages = Append(@, <<"Check suite ", check_suite.app.name,
                                          " is ", check_suite.conclusion>>)]
         ELSE acc

\* One round of the loop over the check suites (issue_comment.py:53-76)
check_suite_step(acc, check_suite) ==
    IF check_suite.status # "completed"
    THEN [acc EXCEPT
            !.messages = Append(@, <<"Check suite ", check_suite.app.name,
                " is not completed, we will wait for it to finish and if it succeeds we will merge this.">>),
            !.pending = FALSE,
            !.success = FALSE]
    ELSE IF ~conclusion_passes(check_suite)
         THEN [acc EXCEPT
                 !.success = FALSE,
                 !.failed = TRUE,
                 !.messages = Append(@, <<"Check suite ", check_suite.app.name,
                                          " is ", check_suite.conclusion>>)]
         ELSE acc

RECURSIVE check_suite_loop(_, _)
check_suite_loop(acc, check_suites) ==
    IF check_suites = <<>> THEN acc
    ELSE check_suite_loop(check_suite_step(acc, Head(check_suites)), Tail(check_suites))

CIResult(success, pending, failed, messages, reqs, fetched_suites) ==
    [success |-> success, pending |-> pending, failed |-> failed,
     messages |-> messages, requests |-> reqs, fetched_suites |-> fetched_suites]

\* A variant of process_pull_request_status that fetches the check suites
\* before it looks at the combined status
pending_after_suites(pr, state, check_suites) ==
    LET status_req == get_statuses_for_commit(pr.repo_owner, pr.repo_name, pr.head_sha)
        suites_req == get_check_suites_for_commit(pr.repo_owner, pr.repo_name, pr.head_sha)
    IN  CIResult(FALSE, state = "pending", FALSE,
                 IF state = "pending" THEN << <<"Some status is still pending">> >> ELSE <<>>,
                 <<status_req, suites_req>>, TRUE)

\* process_pull_request_status: state is statuses["state"], check_suites what
\* the check-suites endpoint would answer for the head commit
process_pull_request_status(pr, state, check_suites) ==
    LET status_req == get_statuses_for_commit(pr.repo_owner, pr.repo_name, pr.head_sha)
        suites_req == get_check_suites_for_commit(pr.repo_owner, pr.repo_name, pr.head_sha)
        statuses_success == (state = "success")
    IN  IF state = "pending"
        THEN CIResult(FALSE, TRUE, FALSE, << <<"Some status is still pending">> >>,
                      <<status_req>>, FALSE)
        ELSE IF statuses_success
             THEN LET r == check_suite_loop(
                             [success |-> TRUE, pending |-> FALSE, failed |-> FALSE,
                              messages |-> <<>>], check_suites)
                  IN  CIResult(r.success, r.pending, r.failed, r.messages,
                               <<status_req, suites_req>>, TRUE)
             ELSE CIResult(FALSE, FALSE, FALSE, <<>>, <<status_req>>, FALSE)

----------------------------------------------------------------------------
(* webhook/issue_comment.py: merge_command *)

\* issue_response: HttpResponse(200, {}, {"action": action})
issue_response(action) == [status |-> 200, action |-> action]

\* An exception leaving the handler: no HttpResponse is built
Raised(exception) == [status |-> 0, action |-> exception]

\* What a merge strategy's run() returns: (check, decline_reasons_strategy)
Verdict(check, reasons) == [check |-> check, reasons |-> reasons]

\* The configured strategies, in order (issue_comment.py:93); each stands
\* for the verdict its run() gives on the pull request
merge_stragies(verdicts) == verdicts

\* A variant of the loop body in which the last strategy overwrites the verdict
last_strategy_decides(acc, verdict) ==
    [passed |-> verdict.check, reasons |-> acc.reasons \o verdict.reasons]

\* One round of the loop over the strategies (issue_comment.py:97-102)
strategy_step(acc, verdict) ==
    [passed  |-> IF verdict.check THEN TRUE ELSE acc.passed,
     reasons |-> acc.reasons \o verdict.reasons]

RECURSIVE strategy_loop(_, _)
strategy_loop(acc, verdicts) ==
    IF verdicts = <<>> THEN acc
    ELSE strategy_loop(strategy_step(acc, Head(verdicts)), Tail(verdicts))

\* PullRequest.from_json of the fetched pull request
PullRequest(issue, head_sha) ==
    [repo_owner |-> issue.repo_owner, repo_name |-> issue.repo_name,
     number |-> issue.issue_number, head_sha |-> head_sha]

\* the decision without lines 121-124
dry_run_off(success, decline_reasons) ==
    [success |-> success, decline_reasons |-> decline_reasons]

\* issue_comment.py:121-124
dry_run(success, decline_reasons) ==
    IF success
    THEN [success |-> FALSE, decline_reasons |-> Append(decline_reasons, <<"Dry run bot">>)]
    ELSE [success |-> success, decline_reasons |-> decline_reasons]

\* A variant of not_permitted_msg that posts the headline alone
not_permitted_without_reasons(issue, decline_reasons) ==
    << <<"@", issue.user_login, " merge not permitted: ">> >>

\* The decline comment: the header line, then one line per reason
not_permitted_msg(issue, decline_reasons) ==
    << <<"@", issue.user_login, " merge not permitted: ">> >> \o decline_reasons

\* A variant of decline_comments that posts a comment for each reason
comment_per_reason(issue, decline_reasons) ==
    [k \in 1..Len(decline_reasons) |->
        create_issue_comment(issue.repo_owner, issue.repo_name, issue.issue_number,
                             << <<"@", issue.user_login, " merge not permitted: ">>,
                                decline_reasons[k] >>)]

\* What the declining branches post (issue_comment.py:174-217): the message
\* built from all the reasons, in one create_issue_comment call
decline_comments(issue, decline_reasons) ==
    <<create_issue_comment(issue.repo_owner, issue.repo_name, issue.issue_number,
                           not_permitted_msg(issue, decline_reasons))>>

pending_msg ==
    << <<"One or more checks are still pending, we will wait for them to finish and if it succeeds we will merge this.">> >>

\* Database.add(head_sha, str(issue_number))
db_add(store, head_sha, issue_number) == store \cup {<<head_sha, ToString(issue_number)>>}

NoTrace ==
    [entered |-> FALSE, head_sha |-> <<>>, verdicts |-> <<>>, passed |-> FALSE,
     strategy_reasons |-> <<>>, decline_reasons |-> <<>>, statuses |-> <<>>,
     check_suites |-> <<>>, ci |-> <<>>, stored_after |-> <<>>, merge_ok |-> <<>>]

Outcome(resp, reqs, g, store, tr) ==
    [response |-> resp, requests |-> reqs, cache |-> g.cache, minted |-> g.minted,
     now |-> g.now, db |-> store, trace |-> tr]

\* The `elif success` branch of merge_command: the merge call, then the comment
\* and the answer of the try block or of its except clause. reqs are the
\* requests issued before the branch is entered.
merge_branch(issue, pr, reqs, merge_ok) ==
    LET merge == merge_pull_request(issue.repo_owner, issue.repo_name,
                                    issue.issue_number, pr.head_sha)
    IN  IF merge_ok
        THEN [response |-> issue_response("merged"),
              requests |-> reqs \o <<merge,
                                     create_issue_comment(issue.repo_owner, issue.repo_name,
                                         issue.issue_number, << <<"Merge completed">> >>)>>]
        \* except GithubClientError: msg is not bound on this path, so the
        \* create_issue_comment call raises before it is made
        ELSE [response |-> Raised("UnboundLocalError"), requests |-> Append(reqs, merge)]

\* merge_command. st is the process state it starts from (cache, now, minted,
\* db); env is what GitHub answers during the invocation.
merge_command(issue, st, env) ==
    LET c == get_github_client(st.cache, st.now, env.installations, st.minted + 1, env.delay)
        g == [cache |-> c.cache, minted |-> c.minted, now |-> c.now]
        pr == PullRequest(issue, env.head_sha)
        reqs1 == c.requests
                   \o <<pull_request(issue.repo_owner, issue.repo_name, issue.issue_number)>>
        s == strategy_loop([passed |-> FALSE, reasons |-> <<>>], merge_stragies(env.verdicts))
        tr1 == [NoTrace EXCEPT !.entered = TRUE, !.head_sha = <<pr.head_sha>>,
                               !.verdicts = env.verdicts, !.passed = s.passed,
                               !.strategy_reasons = s.reasons,
                               !.decline_reasons = s.reasons]
        comment(msg) == create_issue_comment(issue.repo_owner, issue.repo_name,
                                             issue.issue_number, msg)
    IN  IF ~c.ok
        THEN Outcome(Raised("ValueError"), c.requests, g, st.db,
                     [NoTrace EXCEPT !.entered = TRUE])
        ELSE IF s.passed
        THEN LET reqs2 == Append(reqs1,
                            create_issue_reaction(issue.repo_owner, issue.repo_name,
                                issue.issue_number, issue.comment_id, "rocket"))
                 ci == process_pull_request_status(pr, env.statuses, env.check_suites)
                 reqs3 == reqs2 \o ci.requests
                 d == dry_run(ci.success, s.reasons \o ci.messages)
                 tr2 == [tr1 EXCEPT !.decline_reasons = d.decline_reasons,
                                    !.statuses = <<env.statuses>>,
                                    !.check_suites = <<env.check_suites>>,
                                    !.ci = <<ci>>]
             IN  IF ci.pending
                 THEN Outcome(issue_response("merge-postponed"),
                              Append(reqs3, comment(pending_msg)), g,
                              db_add(st.db, pr.head_sha, issue.issue_number),
                              [tr2 EXCEPT !.stored_after = <<Len(reqs3)>>])
                 ELSE IF d.success
                 THEN LET m == merge_branch(issue, pr, reqs3, env.merge_ok)
                      IN  Outcome(m.response, m.requests, g, st.db,
                                  [tr2 EXCEPT !.merge_ok = <<env.merge_ok>>])
                 ELSE \* `elif failed` and `else` build and post the same comment
                      Outcome(issue_response("not-permitted"),
                              reqs3 \o decline_comments(issue, d.decline_reasons),
                              g, st.db, tr2)
        ELSE Outcome(issue_response("not-permitted"),
                     reqs1 \o decline_comments(issue, s.reasons),
                     g, st.db, tr1)

----------------------------------------------------------------------------
(* webhook/issue_comment.py: issue_comment *)

\* A variant of accepted_actions that goes on with every action GitHub sends
\* for a comment
accepted_actions_with_deleted == {"created", "edited", "deleted"}

\* the actions the handler goes on with
accepted_actions == {"created", "edited"}

\* A variant of ignore for a handler that obtains its client before it
\* filters the event
ignore_after_client(action, st, env) ==
    LET c == get_github_client(st.cache, st.now, env.installations, st.minted + 1, env.delay)
    IN  Outcome(issue_response(action), c.requests,
                [cache |-> c.cache, minted |-> c.minted, now |-> c.now], st.db, NoTrace)

\* an early return of issue_comment: the answer and nothing else
ignore(action, st, env) ==
    Outcome(issue_response(action), <<>>,
            [cache |-> st.cache, minted |-> 0, now |-> st.now], st.db, NoTrace)

issue_comment(json, st, env) ==
    LET issue == from_json(json)
    IN  IF issue.is_bot THEN ignore("ignore-bot", st, env)
        ELSE IF ~json.issue.pull_request THEN ignore("ignore-not-pr", st, env)
        ELSE IF issue.action \notin accepted_actions THEN ignore("ignore-action", st, env)
        ELSE IF command_matches(strip_html_comments(issue.text))
             THEN merge_command(issue, st, env)
             ELSE ignore("no-command", st, env)

----------------------------------------------------------------------------
(* What arrives from outside: payloads, and GitHub's answers *)

EventActions == {"created", "edited", "deleted", "submitted"}

UserTypes == {"User", "Bot"}

\* The pieces texts are made of: the single tokens, the command, and the
\* command inside an HTML comment and inside a fenced code block
Chunks ==
    {<<AT>>, <<SP>>, <<NL>>, <<MERGE>>, <<WORD>>, <<HTML_OPEN>>, <<HTML_CLOSE>>,
     <<FENCE>>, <<AT, SP, MERGE>>,
     <<HTML_OPEN, SP, AT, SP, MERGE, SP, HTML_CLOSE>>,
     <<FENCE, NL, AT, SP, MERGE, NL, FENCE>>}

\* Every text made of at most n chunks
Texts(n) == {Flatten(cs) : cs \in SeqsUpTo(Chunks, n)}

SampleTexts ==
    { <<AT, SP, MERGE>>,
      <<AT, SP, MERGE, SP, WORD>>,
      <<HTML_OPEN, AT, SP, MERGE, HTML_CLOSE>>,
      <<WORD, NL, AT, SP, MERGE>> }

Payloads(actions, user_types, texts) ==
    {Payload(a, u, "alice", p, t) :
        a \in actions, u \in user_types, p \in BOOLEAN, t \in texts}

Shas == {"sha1", "sha2"}

Apps == {"ofborg", "actions"}

CheckSuites ==
    {CheckSuite(app, "completed", c) :
        app \in Apps, c \in {"success", "skipped", "failure", "cancelled"}}
    \cup {CheckSuite(app, st, "null") : app \in Apps, st \in {"in_progress", "queued"}}

SampleSuiteLists ==
    { <<>>,
      <<CheckSuite("ofborg", "completed", "success")>>,
      <<CheckSuite("ofborg", "in_progress", "null")>>,
      <<CheckSuite("ofborg", "completed", "success"),
        CheckSuite("actions", "completed", "failure")>> }

CombinedStates == {"success", "pending", "failure", "error"}

Verdicts ==
    { Verdict(TRUE, <<>>),
      Verdict(FALSE, << <<"github id: 3 is not in maintainers">> >>),
      Verdict(FALSE, << <<"pr author is not committer">> >>),
      Verdict(FALSE, << <<"too many files">>, <<"github id: 3 is not in maintainers">> >>) }

VerdictLists == SeqsUpTo(Verdicts, MaxStrategies) \ {<<>>}

Approving == <<Verdict(TRUE, <<>>)>>

Env(installations, delay, head_sha, verdicts, statuses, check_suites, merge_ok) ==
    [installations |-> installations, delay |-> delay, head_sha |-> head_sha,
     verdicts |-> verdicts, statuses |-> statuses, check_suites |-> check_suites,
     merge_ok |-> merge_ok]

Installed == <<Installation("NixOS", 1, 7)>>

SampleVerdictLists ==
    { Approving,
      <<Verdict(FALSE, << <<"pr author is not committer">> >>)>>,
      <<Verdict(FALSE, << <<"github id: 3 is not in maintainers">> >>), Verdict(TRUE, <<>>)>> }

SuiteLists == SeqsUpTo(CheckSuites, MaxSuites)

Envs ==
    {Env(i, 0, h, v, s, cs, TRUE) :
        i \in {Installed, <<>>}, h \in Shas, v \in SampleVerdictLists,
        s \in {"success", "pending", "failure"}, cs \in SampleSuiteLists}

\* GitHub's answers for one pull request: every verdict list within the
\* bound with each combined status and sample suite list, and every list of
\* check suites within the bound with each combined status and sample
\* verdict list
DecisionEnvs ==
    {Env(Installed, 0, "sha1", v, s, cs, TRUE) :
        v \in VerdictLists, s \in CombinedStates, cs \in SampleSuiteLists}
    \cup {Env(Installed, 0, "sha1", v, s, cs, TRUE) :
        v \in SampleVerdictLists, s \in CombinedStates, cs \in SuiteLists}

----------------------------------------------------------------------------
(* Callers of get_github_client *)

Callers == 1..MaxCallers

\* A caller outside get_github_client: token and client are its locals,
\* result what its call returned
Idle == [pc |-> "idle", token |-> <<>>, client |-> <<>>, result |-> <<>>]

NoCallers == [t \in Callers |-> Idle]

----------------------------------------------------------------------------
(* Initial state *)

Init ==
    /\ clock = 0
    /\ CACHED_CLIENT = <<>>
    /\ minted = 0
    /\ history = <<>>
    /\ requests = <<>>
    /\ db = {}
    /\ body = <<>>
    /\ response = <<>>
    /\ trace = <<>>
    /\ callers = NoCallers

----------------------------------------------------------------------------
(* Time passes *)

Tick(d) ==
    /\ clock + d <= MaxClock
    /\ clock' = clock + d
    /\ UNCHANGED <<callers, CACHED_CLIENT, minted, history, requests, db, body, response, trace>>

(* A webhook delivery arrives *)

Deliver(payloads) ==
    /\ body = <<>>
    /\ \E p \in payloads : body' = <<p>>
    /\ UNCHANGED <<callers, clock, CACHED_CLIENT, minted, history, requests, db, response, trace>>

(* The handler runs on the delivery: issue_comment, start to end *)

Handle(envs) ==
    /\ body # <<>>
    /\ response = <<>>
    /\ \E env \in envs :
        LET st == [cache |-> CACHED_CLIENT, now |-> clock, minted |-> minted, db |-> db]
            r == issue_comment(body[1], st, env)
        IN  /\ minted + r.minted <= MaxMinted
            /\ r.now <= MaxClock
            /\ response' = <<r.response>>
            /\ requests' = r.requests
            /\ CACHED_CLIENT' = r.cache
            /\ minted' = minted + r.minted
            /\ clock' = r.now
            /\ db' = r.db
            /\ trace' = <<r.trace>>
            /\ UNCHANGED <<callers, body, history>>

(* The answer is sent and the connection closed *)

Respond ==
    /\ response # <<>>
    /\ body' = <<>>
    /\ response' = <<>>
    /\ requests' = <<>>
    /\ trace' = <<>>
    /\ UNCHANGED <<callers, clock, CACHED_CLIENT, minted, history, db>>

(* A caller asks the credential provider for a client (github.py:176-186) *)

MintDelays == {0, 1}

CallGetGithubClient ==
    \E installations \in InstallationLists, delay \in MintDelays :
        LET r == get_github_client(CACHED_CLIENT, clock, installations, minted + 1, delay)
        IN  /\ minted + r.minted <= MaxMinted
            /\ r.now <= MaxClock
            /\ CACHED_CLIENT' = r.cache
            /\ minted' = minted + r.minted
            /\ clock' = r.now
            /\ history' = Window(Append(history, CallRecord(clock, r, minted)), MaxHistory)
            /\ requests' = r.requests
            /\ trace' = r.listed
            /\ UNCHANGED <<callers, db, body, response>>

CredTickSteps == {149, 150}

TickCred == \E d \in CredTickSteps : Tick(d)

NextCred == TickCred \/ CallGetGithubClient

SpecCred == Init /\ [][NextCred]_vars

(* Callers running get_github_client side by side, one statement at a time
   (github.py:176-186) *)

\* A variant of the assignment of line 185 that keeps a client already cached
assign_first_only(cache, client) == IF cache = <<>> THEN <<client>> ELSE cache

\* CACHED_CLIENT = GithubClient(token): the binding of the global
assign_cached_client(cache, client) == <<client>>

At(t, pc) == callers[t].pc = pc

Goto(t, pc) == [callers EXCEPT ![t].pc = pc]

\* line 178: the cache test
TestCache(t) ==
    /\ At(t, "idle")
    /\ callers' = Goto(t, IF cache_fresh(CACHED_CLIENT, clock) THEN "hit" ELSE "mint")
    /\ UNCHANGED <<clock, CACHED_CLIENT, minted, history, requests, db, body, response, trace>>

\* line 179: return CACHED_CLIENT
ReturnCached(t) ==
    /\ At(t, "hit")
    /\ callers' = [callers EXCEPT ![t].pc = "done", ![t].result = CACHED_CLIENT]
    /\ UNCHANGED <<clock, CACHED_CLIENT, minted, history, requests, db, body, response, trace>>

\* lines 180-184: request_access_token returns a token or raises ValueError
RequestToken(t) ==
    /\ At(t, "mint")
    /\ \E installations \in InstallationLists :
        LET r == request_access_token(settings.github_app_login, settings.github_app_id,
                                      installations, minted + 1)
        IN  IF r.ok
            THEN /\ minted < MaxMinted
                 /\ minted' = minted + 1
                 /\ callers' = [callers EXCEPT ![t].pc = "construct",
                                               ![t].token = <<r.token>>]
            ELSE /\ minted' = minted
                 /\ callers' = Goto(t, "raised")
    /\ UNCHANGED <<clock, CACHED_CLIENT, history, requests, db, body, response, trace>>

\* line 185, right-hand side: GithubClient(token) builds the client, not yet
\* visible to the other callers
Construct(t) ==
    /\ At(t, "construct")
    /\ callers' = [callers EXCEPT ![t].pc = "assign",
                                  ![t].client = <<GithubClient(callers[t].token[1], clock)>>]
    /\ UNCHANGED <<clock, CACHED_CLIENT, minted, history, requests, db, body, response, trace>>

\* line 185, the assignment to the global
AssignCache(t) ==
    /\ At(t, "assign")
    /\ CACHED_CLIENT' = assign_cached_client(CACHED_CLIENT, callers[t].client[1])
    /\ callers' = Goto(t, "return")
    /\ UNCHANGED <<clock, minted, history, requests, db, body, response, trace>>

\* line 186: return CACHED_CLIENT, the global read again
ReturnClient(t) ==
    /\ At(t, "return")
    /\ callers' = [callers EXCEPT ![t].pc = "done", ![t].result = CACHED_CLIENT]
    /\ UNCHANGED <<clock, CACHED_CLIENT, minted, history, requests, db, body, response, trace>>

\* the caller has its answer and may call again later
Leave(t) ==
    /\ At(t, "done") \/ At(t, "raised")
    /\ callers' = [callers EXCEPT ![t] = Idle]
    /\ UNCHANGED <<clock, CACHED_CLIENT, minted, history, requests, db, body, response, trace>>

TestCacheStep == \E t \in Callers : TestCache(t)
ReturnCachedStep == \E t \in Callers : ReturnCached(t)
RequestTokenStep == \E t \in Callers : RequestToken(t)
ConstructStep == \E t \in Callers : Construct(t)
AssignCacheStep == \E t \in Callers : AssignCache(t)
ReturnClientStep == \E t \in Callers : ReturnClient(t)
LeaveStep == \E t \in Callers : Leave(t)

TickCallers == Tick(TokenFreshness)

NextCallers ==
    \/ TestCacheStep
    \/ ReturnCachedStep
    \/ RequestTokenStep
    \/ ConstructStep
    \/ AssignCacheStep
    \/ ReturnClientStep
    \/ LeaveStep
    \/ TickCallers

SpecCallers == Init /\ [][NextCallers]_vars

(* The webhook server: deliveries, one at a time, and time passing *)

DeliverComment == Deliver(Payloads(EventActions, UserTypes, SampleTexts))

HandleComment == Handle(Envs)

TickWindow == Tick(TokenFreshness)

Next == DeliverComment \/ HandleComment \/ Respond \/ TickWindow

Spec == Init /\ [][Next]_vars

(* The API gateway used on its own: a caller invokes methods of a client *)

PullNumbers == {5, 6}

ClientCall(op, pr_number, sha) == [op |-> op, pr_number |-> pr_number, sha |-> sha]

CallMergePullRequest ==
    /\ Len(requests) < MaxRequests
    /\ \E n \in PullNumbers, sha \in Shas :
        /\ requests' = Append(requests, merge_pull_request("NixOS", "nixpkgs", n, sha))
        /\ trace' = Append(trace, ClientCall("merge_pull_request", n, sha))
    /\ UNCHANGED <<callers, clock, CACHED_CLIENT, minted, history, db, body, response>>

CallCreateIssueComment ==
    /\ Len(requests) < MaxRequests
    /\ \E n \in PullNumbers, msg \in {pending_msg, << <<"Merge completed">> >>} :
        /\ requests' = Append(requests, create_issue_comment("NixOS", "nixpkgs", n, msg))
        /\ trace' = Append(trace, ClientCall("create_issue_comment", n, ""))
    /\ UNCHANGED <<callers, clock, CACHED_CLIENT, minted, history, db, body, response>>

NextClient == CallMergePullRequest \/ CallCreateIssueComment

SpecClient == Init /\ [][NextClient]_vars

(* One merge command from a user on a pull request, and the decision on it *)

CommandPayload == Payload("created", "User", "alice", TRUE, <<AT, SP, MERGE>>)

InitCommand ==
    /\ clock = 0
    /\ CACHED_CLIENT = <<>>
    /\ minted = 0
    /\ history = <<>>
    /\ requests = <<>>
    /\ db = {}
    /\ body = <<CommandPayload>>
    /\ response = <<>>
    /\ trace = <<>>
    /\ callers = NoCallers

HandleDecision == Handle(DecisionEnvs)

SpecDecision == InitCommand /\ [][HandleDecision]_vars

(* One comment of a user on a pull request, over every text within the bound *)

InitText ==
    /\ clock = 0
    /\ CACHED_CLIENT = <<>>
    /\ minted = 0
    /\ history = <<>>
    /\ requests = <<>>
    /\ db = {}
    /\ body \in {<<Payload(a, "User", "alice", TRUE, t)>> :
                    a \in {"created", "edited"}, t \in Texts(MaxChunks)}
    /\ response = <<>>
    /\ trace = <<>>
    /\ callers = NoCallers

HandleText ==
    Handle({Env(Installed, 0, "sha1", Approving, "pending", <<>>, TRUE)})

SpecText == InitText /\ [][HandleText]_vars

(* The merge branch of merge_command on its own (issue_comment.py:137-173):
   a command of a user on a pull request, the pull request fetched, and the
   merge call accepted or rejected by GitHub *)

MergeTexts == {t \in Texts(2) : command_matches(strip_html_comments(t))}

InitMerge ==
    /\ clock = 0
    /\ CACHED_CLIENT = <<>>
    /\ minted = 0
    /\ history = <<>>
    /\ requests = <<>>
    /\ db = {}
    /\ body \in {<<Payload(a, "User", login, TRUE, t)>> :
                    a \in accepted_actions, login \in {"alice", "bob"}, t \in MergeTexts}
    /\ response = <<>>
    /\ trace = <<>>
    /\ callers = NoCallers

TakeMergeBranch ==
    /\ body # <<>>
    /\ response = <<>>
    /\ \E head_sha \in Shas, merge_ok \in BOOLEAN :
        LET issue == from_json(body[1])
            m == merge_branch(issue, PullRequest(issue, head_sha), <<>>, merge_ok)
        IN  /\ response' = <<m.response>>
            /\ requests' = m.requests
            /\ trace' = <<[NoTrace EXCEPT !.entered = TRUE, !.head_sha = <<head_sha>>,
                                          !.passed = TRUE, !.merge_ok = <<merge_ok>>]>>
    /\ UNCHANGED <<callers, clock, CACHED_CLIENT, minted, history, db, body>>

SpecMerge == InitMerge /\ [][TakeMergeBranch]_vars

----------------------------------------------------------------------------
(* merging_strategies/committer_pr.py: CommitterPR.run *)

pull_request_files(owner, repo, pr_number) ==
    get(<<"repos", owner, repo, "pulls", ToString(pr_number), "files">>)

\* GithubClient.get_committer_list: the collaborators of the repository
get_committer_list(owner, repo) == get(<<"repos", owner, repo, "collaborators">>)

\* An entry of the committer list, and a maintainer of a package
Committer(login, maintain) == [login |-> login, permissions |-> [maintain |-> maintain]]

Maintainer(github_id, name) == [github_id |-> github_id, name |-> name]

\* nix_utils.is_maintainer
is_maintainer(commenter_id, maintainers) ==
    \E i \in 1..Len(maintainers) : maintainers[i].github_id = commenter_id

\* A variant of allowed_users that takes every collaborator
allowed_users_any_permission(committer_list) ==
    {committer_list[i].login : i \in 1..Len(committer_list)}

\* committer_pr.py:27-31
allowed_users(committer_list) ==
    {committer_list[i].login :
        i \in {k \in 1..Len(committer_list) : committer_list[k].permissions.maintain}}

\* ", ".join(m.name for m in maintainers)
RECURSIVE join_names(_)
join_names(maintainers) ==
    IF maintainers = <<>> THEN <<>>
    ELSE IF Len(maintainers) = 1 THEN <<maintainers[1].name>>
    ELSE <<maintainers[1].name, ", ">> \o join_names(Tail(maintainers))

\* committer_pr.py:51-54
not_maintainer_msg(commenter_id, maintainers) ==
    <<"github id: ", ToString(commenter_id),
      " is not a package maintainer, valid maintainers are: ">> \o join_names(maintainers)

\* One round of the loop over the changed files (committer_pr.py:46-56);
\* package_maintainers is what get_package_maintainers finds for a file
files_step(acc, filename, commenter_id, package_maintainers) ==
    LET maintainers == package_maintainers[filename]
    IN  IF ~is_maintainer(commenter_id, maintainers)
        THEN [result |-> FALSE,
              decline_reasons |->
                  Append(acc.decline_reasons, not_maintainer_msg(commenter_id, maintainers))]
        ELSE acc

RECURSIVE files_loop(_, _, _, _)
files_loop(acc, files, commenter_id, package_maintainers) ==
    IF files = <<>> THEN acc
    ELSE files_loop(files_step(acc, Head(files), commenter_id, package_maintainers),
                    Tail(files), commenter_id, package_maintainers)

\* CommitterPR.run. env is what the precheck returns and what GitHub and the
\* working copy answer: precheck, committer_list, files, package_maintainers
CommitterPR_run(pr, commenter_id, env) ==
    LET committers_req == get_committer_list(pr.repo_owner, pr.repo_name)
        files_req == pull_request_files(pr.repo_owner, pr.repo_name,
                                        pr.number)
    IN  IF ~env.precheck.result
        THEN [result |-> env.precheck.result,
              decline_reasons |-> env.precheck.decline_reasons, requests |-> <<>>]
        ELSE IF pr.user_login \notin allowed_users(env.committer_list)
        THEN [result |-> FALSE,
              decline_reasons |->
                  Append(env.precheck.decline_reasons, <<"pr author is not committer">>),
              requests |-> <<committers_req>>]
        ELSE LET r == files_loop([result |-> env.precheck.result,
                                  decline_reasons |-> env.precheck.decline_reasons],
                                 env.files, commenter_id, env.package_maintainers)
             IN  [result |-> r.result, decline_reasons |-> r.decline_reasons,
                  requests |-> <<committers_req, files_req>>]

(* The committer strategy run on its own, over the inputs within the bounds *)

FileNames == {"pkgs/hello/default.nix", "pkgs/jq/default.nix"}

Prechecks ==
    { [result |-> TRUE, decline_reasons |-> <<>>],
      [result |-> FALSE, decline_reasons |-> << <<"pr touches files outside of pkgs/by-name">> >>] }

CommitterLists ==
    { <<>>,
      <<Committer("alice", TRUE)>>,
      <<Committer("alice", FALSE)>>,
      <<Committer("bob", TRUE), Committer("alice", TRUE)>>,
      <<Committer("bob", TRUE), Committer("alice", FALSE)>> }

PackageMaintainers ==
    { [f \in FileNames |-> <<Maintainer(3, "alice")>>],
      [f \in FileNames |->
          IF f = "pkgs/jq/default.nix" THEN <<Maintainer(4, "bob"), Maintainer(9, "carol")>>
          ELSE <<Maintainer(3, "alice"), Maintainer(4, "bob")>>],
      [f \in FileNames |->
          IF f = "pkgs/jq/default.nix" THEN <<>> ELSE <<Maintainer(3, "alice")>>] }

CommenterIds == {3, 4}

StrategyInput(commenter_id, precheck, committer_list, files, package_maintainers) ==
    [pull_request |-> [repo_owner |-> "NixOS", repo_name |-> "nixpkgs", number |-> 5,
                       user_login |-> "alice"],
     commenter_id |-> commenter_id,
     env |-> [precheck |-> precheck, committer_list |-> committer_list, files |-> files,
              package_maintainers |-> package_maintainers]]

InitCommitter ==
    /\ clock = 0
    /\ CACHED_CLIENT = <<>>
    /\ minted = 0
    /\ history = <<>>
    /\ requests = <<>>
    /\ db = {}
    /\ body \in {<<StrategyInput(id, pre, cl, fs, pm)>> :
                    id \in CommenterIds, pre \in Prechecks, cl \in CommitterLists,
                    fs \in SeqsUpTo(FileNames, MaxFiles), pm \in PackageMaintainers}
    /\ response = <<>>
    /\ trace = <<>>
    /\ callers = NoCallers

RunCommitterPR ==
    /\ body # <<>>
    /\ response = <<>>
    /\ LET r == CommitterPR_run(body[1].pull_request, body[1].commenter_id, body[1].env)
       IN  /\ response' = <<[result |-> r.result, decline_reasons |-> r.decline_reasons]>>
           /\ requests' = r.requests
    /\ UNCHANGED <<clock, CACHED_CLIENT, minted, history, db, body, trace, callers>>

SpecCommitter == InitCommitter /\ [][RunCommitterPR]_vars

----------------------------------------------------------------------------
(* What the claims speak of *)

Handled == body # <<>> /\ response # <<>>

TextOf(json) == json.comment.body

IsCommentRequest(r) == r.method = "POST" /\ Last(r.path) = "comments"

CommentRequests == {i \in 1..Len(requests) : IsCommentRequest(requests[i])}

Command == <<AT, SP, MERGE>>

\* The literal command starts at position i of text
CommandAt(text, i) == i + 2 <= Len(text) /\ SubSeq(text, i, i + 2) = Command

\* Some whole line of text, trimmed of whitespace, is the command
HasCommandLine(text) ==
    \E i \in 1..Len(text) :
        /\ CommandAt(text, i)
        /\ \A k \in 1..(i - 1) :
              (\A m \in k..(i - 1) : text[m] # NL) => text[k] \in Whitespace
        /\ \A k \in (i + 3)..Len(text) :
              (\A m \in (i + 3)..k : text[m] # NL) => text[k] \in Whitespace

\* The positions of text inside an HTML comment or a fenced code block,
\* delimiters included, reading the text from left to right
RECURSIVE HiddenFrom(_, _)
HiddenFrom(text, i) ==
    IF i > Len(text) THEN {}
    ELSE IF text[i] \in {HTML_OPEN, FENCE}
         THEN LET closes == Positions(text, IF text[i] = HTML_OPEN THEN HTML_CLOSE ELSE FENCE,
                                      i + 1)
              IN  IF closes = {} THEN HiddenFrom(text, i + 1)
                  ELSE (i..Min(closes)) \cup HiddenFrom(text, Min(closes) + 1)
         ELSE HiddenFrom(text, i + 1)

Hidden(text) == HiddenFrom(text, 1)

RECURSIVE Without(_, _)
Without(text, positions) ==
    IF text = <<>> THEN <<>>
    ELSE Without(SubSeq(text, 1, Len(text) - 1), positions)
            \o (IF Len(text) \in positions THEN <<>> ELSE <<Last(text)>>)

\* The text has the command, and has it only inside HTML comments and fenced
\* code blocks: every literal occurrence lies inside one, and what is left of
\* the text without them has no command line
CommandOnlyHidden(text) ==
    /\ \E i \in 1..Len(text) : CommandAt(text, i)
    /\ \A i \in 1..Len(text) : CommandAt(text, i) => (i..(i + 2)) \subseteq Hidden(text)
    /\ ~HasCommandLine(Without(text, Hidden(text)))

----------------------------------------------------------------------------
(* Claims about the command recognizer *)

\* C1: a payload whose commenting user is a bot is answered ignore-bot,
\* whatever its other fields, and no comment is posted.
C1_BotIgnored ==
    (Handled /\ body[1].comment.user.type = "Bot")
        => /\ response[1] = issue_response("ignore-bot")
           /\ CommentRequests = {}

\* C1 witness: a bot's comment on a pull request, newly created, whose text
\* is the merge command, has been handled.
C1_Witness ==
    /\ Handled
    /\ body[1].comment.user.type = "Bot"
    /\ body[1].issue.pull_request
    /\ body[1].action = "created"
    /\ TextOf(body[1]) = Command

\* C2: for a non-bot created or edited pull-request comment, merge_command
\* is entered if and only if some whole line of the stripped text, trimmed,
\* equals the command; every other text is answered no-command.
C2_ExactLine ==
    Handled =>
        /\ trace[1].entered <=> HasCommandLine(strip_html_comments(TextOf(body[1])))
        /\ ~trace[1].entered <=> response[1] = issue_response("no-command")

\* C3: a text that has the command only inside an HTML comment or a fenced
\* code block does not match after stripping and is answered no-command.
C3_HiddenCommandIgnored ==
    (Handled /\ CommandOnlyHidden(TextOf(body[1])))
        => /\ ~command_matches(strip_html_comments(TextOf(body[1])))
           /\ ~trace[1].entered
           /\ response[1] = issue_response("no-command")

----------------------------------------------------------------------------
(* Claims about the CI outcome and the policy *)

\* process_pull_request_status ran in the handled invocation
Evaluated == Handled /\ trace[1].ci # <<>>

CI == trace[1].ci[1]

RemoteState == trace[1].statuses[1]

RemoteSuites == trace[1].check_suites[1]

IsSuitesRequest(r) == r.method = "GET" /\ Last(r.path) = "check-suites"

Range(f) == {f[x] : x \in DOMAIN f}

NotCompleted(suite) == suite.status # "completed"

Failing(suite) ==
    suite.status = "completed" /\ suite.conclusion \notin {"success", "skipped"}

\* C5: with the combined status pending the outcome is Pending with exactly
\* the message "Some status is still pending", and the check suites are not
\* fetched, whatever they are.
C5_PendingShortCircuits ==
    (Evaluated /\ RemoteState = "pending")
        => /\ CI.pending /\ ~CI.success /\ ~CI.failed
           /\ CI.messages = << <<"Some status is still pending">> >>
           /\ ~CI.fetched_suites
           /\ \A i \in 1..Len(requests) : ~IsSuitesRequest(requests[i])

\* C5 witness: the status is pending while the commit has a failed check
\* suite and one that is still running.
C5_Witness ==
    /\ Evaluated
    /\ RemoteState = "pending"
    /\ \E i, j \in 1..Len(RemoteSuites) :
          Failing(RemoteSuites[i]) /\ NotCompleted(RemoteSuites[j])
    /\ CI.pending

\* C6: with a combined status that is neither success nor pending the
\* outcome is Failed: the failed flag is set, success and pending are not.
C6_NonSuccessIsFailed ==
    (Evaluated /\ RemoteState \notin {"success", "pending"})
        => CI.failed /\ ~CI.success /\ ~CI.pending

\* C7: with the statuses success and some check suite not completed the
\* outcome is Pending, even if another suite failed, and merge_command
\* answers merge-postponed.
C7_UnfinishedSuiteIsPending ==
    (Evaluated /\ RemoteState = "success"
        /\ \E i \in 1..Len(RemoteSuites) : NotCompleted(RemoteSuites[i]))
        => /\ CI.pending /\ ~CI.success
           /\ response[1] = issue_response("merge-postponed")

\* C8: with the statuses success and every suite completed, the outcome is
\* Failed exactly when some conclusion is outside {success, skipped}; the
\* messages are then one per failing suite, in order, each naming the
\* suite's app and conclusion, and none for a passing suite.
C8_SuiteAggregation ==
    (Evaluated /\ RemoteState = "success"
        /\ \A i \in 1..Len(RemoteSuites) : ~NotCompleted(RemoteSuites[i]))
        => LET failing == SelectSeq(RemoteSuites, Failing)
           IN  /\ CI.failed <=> failing # <<>>
               /\ CI.failed => ~CI.success /\ ~CI.pending
               /\ Len(CI.messages) = Len(failing)
               /\ \A k \in 1..Len(failing) :
                     {failing[k].app.name, failing[k].conclusion} \subseteq Range(CI.messages[k])

\* C8 witness: one suite concluded success and one concluded failure; the
\* outcome is Failed with one message.
C8_Witness ==
    /\ Evaluated
    /\ RemoteState = "success"
    /\ RemoteSuites = <<CheckSuite("ofborg", "completed", "success"),
                        CheckSuite("actions", "completed", "failure")>>
    /\ CI.failed
    /\ Len(CI.messages) = 1

\* C9: approval is true if and only if at least one strategy approves, and
\* the decline reasons after the strategies ran are the reasons of every
\* strategy, concatenated in strategy order; they open the final list.
C9_PolicyOr ==
    (Handled /\ trace[1].head_sha # <<>>)
        => LET v == trace[1].verdicts
               all == Flatten([i \in 1..Len(v) |-> v[i].reasons])
           IN  /\ trace[1].passed <=> \E i \in 1..Len(v) : v[i].check
               /\ trace[1].strategy_reasons = all
               /\ Len(trace[1].decline_reasons) >= Len(all)
               /\ SubSeq(trace[1].decline_reasons, 1, Len(all)) = all

\* C9 witness: the first strategy declined with a reason, the second
\* approved; the command is approved and the reason is kept.
C9_Witness ==
    /\ Handled
    /\ trace[1].head_sha # <<>>
    /\ Len(trace[1].verdicts) = 2
    /\ ~trace[1].verdicts[1].check
    /\ trace[1].verdicts[2].check
    /\ trace[1].passed
    /\ trace[1].verdicts[1].reasons[1] \in Range(trace[1].decline_reasons)

----------------------------------------------------------------------------
(* Claims about the API gateway *)

\* C10: the request merge_pull_request puts on the wire is a PUT whose body
\* has the field sha, holding the sha the caller passed.
C10_MergeCarriesSha ==
    \A i \in 1..Len(trace) :
        trace[i].op = "merge_pull_request"
            => /\ requests[i].method = "PUT"
               /\ "sha" \in DOMAIN requests[i].body
               /\ requests[i].body.sha = trace[i].sha

----------------------------------------------------------------------------
(* Claims about the credential cache *)

\* Pairs of recorded calls, the earlier first, both of which returned a client
CallPairs ==
    {p \in (1..Len(history)) \X (1..Len(history)) :
        p[1] < p[2] /\ history[p[1]].ok /\ history[p[2]].ok}

SameToken(a, b) == a.client[1].api_token = b.client[1].api_token

\* C4 as stated: two calls of get_github_client made within 300 seconds of
\* each other perform at most one mint between them and return the same token.
C4_TwoCallsWithin300 ==
    \A p \in CallPairs :
        LET a == history[p[1]]
            b == history[p[2]]
        IN  b.at - a.at < TokenFreshness
                => /\ b.minted_after - a.minted_before <= 1
                   /\ SameToken(a, b)

\* C4 amended: a call made less than 300 seconds after the creation
\* (token_age) of the client an earlier call returned mints nothing and
\* returns that same token; the two calls perform at most one mint, the
\* earlier call's own.
C4_CallsWithinTokenAge ==
    \A p \in CallPairs :
        LET a == history[p[1]]
            b == history[p[2]]
        IN  b.at < a.client[1].token_age + TokenFreshness
                => /\ b.minted_after = a.minted_after
                   /\ b.minted_after - a.minted_before <= 1
                   /\ SameToken(a, b)

\* C4 witness: the first call minted, and the second came 299 seconds after
\* the token was stamped and got the cached client.
C4_Witness ==
    \E p \in CallPairs :
        LET a == history[p[1]]
            b == history[p[2]]
        IN  /\ a.minted_after = a.minted_before + 1
            /\ b.at = a.client[1].token_age + TokenFreshness - 1
            /\ SameToken(a, b)

----------------------------------------------------------------------------
(* The merge call and its failure *)

IsMergeRequest(r) == r.method = "PUT" /\ Last(r.path) = "merge"

MergeRequests == {i \in 1..Len(requests) : IsMergeRequest(requests[i])}

\* The merge call of this invocation was made and GitHub rejected it
MergeRejected == Handled /\ trace[1].merge_ok = <<FALSE>>

----------------------------------------------------------------------------
(* The dry run *)

DryRunReason == <<"Dry run bot">>

\* C12: in every execution of merge_command a CI outcome of Success is turned
\* into a decline that carries the reason "Dry run bot" and is answered
\* not-permitted; merge_pull_request is never called and the answers merged
\* and merge-failed are never given.
C12_DryRunNeverMerges ==
    /\ Handled =>
          /\ MergeRequests = {}
          /\ response[1].action \notin {"merged", "merge-failed"}
    /\ (Evaluated /\ CI.success) =>
          /\ DryRunReason \in Range(trace[1].decline_reasons)
          /\ response[1] = issue_response("not-permitted")
          /\ \E i \in CommentRequests : DryRunReason \in Range(requests[i].body.body)

\* C12 witness: the strategies approved, the statuses and every check suite
\* were green, and the command was answered.
C12_Witness ==
    /\ Evaluated
    /\ CI.success
    /\ trace[1].check_suites[1] # <<>>
    /\ response[1] = issue_response("not-permitted")

----------------------------------------------------------------------------
(* The postponed merge *)

\* The handler has just answered: this step is the run of issue_comment
Answers == response = <<>> /\ response' # <<>>

\* The strategies approved and the CI outcome of this invocation is Pending
Postponed == Evaluated /\ CI.pending

PendingRecord == <<trace[1].head_sha[1], ToString(body[1].issue.number)>>

\* r posts msg as a comment on the issue the delivery json is about
IsCommentOn(r, json, msg) ==
    /\ r.method = "POST"
    /\ r.path = <<"repos", json.repository.owner.login, json.repository.name,
                  "issues", ToString(json.issue.number), "comments">>
    /\ r.body = [body |-> msg]

\* C13: when the CI outcome is Pending after the strategies approved,
\* merge_command adds the record (head sha fetched in this invocation ->
\* issue number) to the store, after that posts exactly one comment, the
\* status comment, and answers merge-postponed.
C13_PendingRecordedThenAnnounced ==
    [][(Answers /\ Postponed') =>
          /\ response'[1] = issue_response("merge-postponed")
          /\ db' = db \cup {PendingRecord'}
          /\ trace'[1].stored_after # <<>>
          /\ Cardinality(CommentRequests') = 1
          /\ \A i \in CommentRequests' :
                /\ i > trace'[1].stored_after[1]
                /\ IsCommentOn(requests'[i], body[1], pending_msg)]_vars

\* C13 witness: a second command was postponed, for another head commit than
\* the one the store already held.
C13_Witness ==
    /\ Postponed
    /\ PendingRecord \in db
    /\ \E r \in db : r[1] # PendingRecord[1]

----------------------------------------------------------------------------
(* The life of a pending-merge record *)

TerminalAnswers == {"merged", "merge-failed", "not-permitted"}

\* The invocation fetched the pull request and ended in a terminal decision
TerminalDecision ==
    /\ Handled
    /\ trace[1].head_sha # <<>>
    /\ response[1].action \in TerminalAnswers

\* C14: once a decision for a head sha has ended in a terminal outcome
\* (merge, decline, fail) the store holds no pending-merge record for that
\* sha.
C14_TerminalDecisionClearsRecord ==
    TerminalDecision => \A r \in db : r[1] # trace[1].head_sha[1]

----------------------------------------------------------------------------
(* The action filter *)

\* The delivery is a comment of a user (no bot) on a pull request
UserCommentOnPR ==
    /\ Handled
    /\ body[1].comment.user.type # "Bot"
    /\ body[1].issue.pull_request

IgnoredForAction == response[1] = issue_response("ignore-action")

\* C15 as stated: a user's comment on a pull request is answered
\* ignore-action exactly when its action is outside
\* {created, edited, submitted}.
C15_SubmittedIsAccepted ==
    UserCommentOnPR =>
        (IgnoredForAction <=> body[1].action \notin {"created", "edited", "submitted"})

\* C15 amended: a user's comment on a pull request is answered ignore-action
\* exactly when its action is outside {created, edited}; the accepted
\* actions go on to command recognition, whose answers are no-command or
\* those of merge_command.
C15_CreatedOrEditedIsAccepted ==
    UserCommentOnPR =>
        /\ IgnoredForAction <=> body[1].action \notin {"created", "edited"}
        /\ ~IgnoredForAction =>
              IF command_matches(strip_html_comments(TextOf(body[1])))
              THEN trace[1].entered
              ELSE response[1] = issue_response("no-command")

\* C15 witness: a user's command on a pull request arrived with the action
\* submitted and was answered ignore-action.
C15_Witness ==
    /\ UserCommentOnPR
    /\ body[1].action = "submitted"
    /\ command_matches(strip_html_comments(TextOf(body[1])))
    /\ IgnoredForAction

----------------------------------------------------------------------------
(* The answers that do nothing *)

NoOpAnswers == {"ignore-bot", "ignore-not-pr", "ignore-action", "no-command"}

\* C16: an event answered ignore-bot, ignore-not-pr, ignore-action or
\* no-command leaves the outside world as it was: no token is requested, no
\* API call is made and the store is not written.
C16_NoOpAnswersTouchNothing ==
    [][(Answers /\ response'[1].action \in NoOpAnswers) =>
          /\ requests' = <<>>
          /\ minted' = minted
          /\ CACHED_CLIENT' = CACHED_CLIENT
          /\ db' = db
          /\ trace'[1].stored_after = <<>>]_vars

\* C16 witness: a comment without the command was answered no-command while
\* the cached client was stale and the store held a record, and no request
\* went out.
C16_Witness ==
    /\ Handled
    /\ response[1] = issue_response("no-command")
    /\ requests = <<>>
    /\ db # {}
    /\ CACHED_CLIENT # <<>>
    /\ ~cache_fresh(CACHED_CLIENT, clock)

----------------------------------------------------------------------------
(* Callers side by side *)

\* Every caller has its client back
AllReturned == \A t \in Callers : At(t, "done")

\* The tokens GitHub has issued so far
MintedTokens == 1..minted

\* A client that holds a minted token and the time it was built
Complete(client) ==
    /\ client.api_token \in MintedTokens
    /\ client.token_age \in 0..clock

\* C17: when callers run get_github_client side by side on an empty or stale
\* cache each may mint a token of its own; every caller gets back a client
\* holding a completely minted token, and once all of them have returned
\* the cache holds one client, whose token one of these calls minted.
C17_ConcurrentCallersGetMintedClients ==
    /\ \A t \in Callers :
          At(t, "done") => /\ Len(callers[t].result) = 1
                           /\ Complete(callers[t].result[1])
    /\ (AllReturned /\ \A t \in Callers : callers[t].token # <<>>) =>
          /\ Len(CACHED_CLIENT) = 1
          /\ Complete(CACHED_CLIENT[1])
          /\ \E t \in Callers : CACHED_CLIENT[1].api_token = callers[t].token[1]

\* C17 witness: the cache was stale, every caller minted a token of its own,
\* all have returned, and one of them got back the client that holds
\* another caller's token.
C17_Witness ==
    /\ AllReturned
    /\ \A t \in Callers : callers[t].token # <<>>
    /\ \A t, u \in Callers : t # u => callers[t].token # callers[u].token
    /\ \E t \in Callers : callers[t].result[1].api_token # callers[t].token[1]
    /\ \A t \in Callers : callers[t].token[1] > 1

----------------------------------------------------------------------------
(* No installation of the app *)

\* No listed installation has the configured login and app id
NoneMatches(installations) ==
    \A i \in 1..Len(installations) :
        ~(/\ installations[i].login = settings.github_app_login
          /\ installations[i].app_id = settings.github_app_id)

IsTokenRequest(r) == r.method = "POST" /\ Last(r.path) = "access_tokens"

\* This step is a call of get_github_client that asked GitHub for the
\* installations; trace holds the list GitHub answered with
ListedCall == (history' # history \/ trace' # trace) /\ requests' # <<>>

\* C18: when no listed installation matches the configured login and app id,
\* request_access_token fails without asking for an installation access
\* token, and get_github_client passes the failure on and leaves the cached
\* client as it was.
C18_NoInstallationNoToken ==
    [][(ListedCall /\ NoneMatches(trace'[1])) =>
          /\ ~Last(history').ok
          /\ \A i \in 1..Len(requests') : ~IsTokenRequest(requests'[i])
          /\ minted' = minted
          /\ CACHED_CLIENT' = CACHED_CLIENT]_vars

\* C18 witness: the cached client was stale, GitHub listed an installation
\* of the right account for another app, and the call failed after its one
\* request, the cached client still in place.
C18_Witness ==
    /\ history # <<>>
    /\ ~Last(history).ok
    /\ trace = << <<Installation("NixOS", 2, 9)>> >>
    /\ requests = <<app_installations>>
    /\ CACHED_CLIENT # <<>>

----------------------------------------------------------------------------
(* The green outcome *)

Green(suite) == suite.status = "completed" /\ suite.conclusion \in {"success", "skipped"}

AllGreen == \A i \in 1..Len(RemoteSuites) : Green(RemoteSuites[i])

\* C19: with the combined status success the CI outcome is Success exactly
\* when every check suite, none at all included, is completed with the
\* conclusion success or skipped; the message list is then empty.
C19_SuccessIffAllGreen ==
    (Evaluated /\ RemoteState = "success")
        => /\ (CI.success /\ ~CI.pending /\ ~CI.failed) <=> AllGreen
           /\ CI.success => CI.messages = <<>>

\* C19 witness: two suites, one concluded success and one skipped, and the
\* outcome is Success without a message.
C19_Witness ==
    /\ Evaluated
    /\ RemoteState = "success"
    /\ Len(RemoteSuites) = 2
    /\ \E i \in 1..2 : RemoteSuites[i].conclusion = "skipped"
    /\ \E i \in 1..2 : RemoteSuites[i].conclusion = "success"
    /\ CI.success
    /\ CI.messages = <<>>

----------------------------------------------------------------------------
(* Declines *)

\* The invocation fetched the pull request, and a strategy declined or the
\* CI outcome is Failed
Declined ==
    /\ Handled
    /\ trace[1].head_sha # <<>>
    /\ ~trace[1].passed \/ (trace[1].ci # <<>> /\ CI.failed)

\* Every reason the invocation collected: those of the strategies, then the
\* messages of the CI outcome
CollectedReasons ==
    trace[1].strategy_reasons \o (IF trace[1].ci # <<>> THEN CI.messages ELSE <<>>)

\* r posts the decline of json's command: the headline, then every reason
IsDeclineComment(r, json, reasons) ==
    IsCommentOn(r, json,
                << <<"@", json.comment.user.login, " merge not permitted: ">> >> \o reasons)

\* C20: on a Failed CI outcome and on a decline by the strategies
\* merge_command posts the decline comment that lists every collected
\* reason, answers not-permitted and does not write to the store; the store
\* is written only by the invocation that answers merge-postponed.
C20_DeclineListsReasonsStoreUntouched ==
    [][/\ (Answers /\ Declined') =>
             /\ response'[1] = issue_response("not-permitted")
             /\ Cardinality(CommentRequests') = 1
             /\ \A i \in CommentRequests' :
                   IsDeclineComment(requests'[i], body[1], CollectedReasons')
             /\ db' = db
             /\ trace'[1].stored_after = <<>>
       /\ (db' # db \/ (Answers /\ trace'[1].stored_after # <<>>)) =>
             /\ Answers
             /\ response'[1] = issue_response("merge-postponed")]_vars

\* C20 witness: a strategy gave a reason, another approved, a check suite
\* failed; the command was answered not-permitted with both reasons listed
\* while the store held a record.
C20_Witness ==
    /\ Declined
    /\ trace[1].passed
    /\ CI.failed
    /\ Len(CollectedReasons) = 2
    /\ trace[1].strategy_reasons # <<>>
    /\ response[1] = issue_response("not-permitted")
    /\ db # {}

----------------------------------------------------------------------------
(* The committer strategy *)

\* CommitterPR.run has returned for the input in body
StrategyRan == body # <<>> /\ response # <<>> /\ body[1].commenter_id \in CommenterIds

StrategyEnv == body[1].env

\* The author is a collaborator with the maintain permission
AuthorIsCommitter ==
    \E i \in 1..Len(StrategyEnv.committer_list) :
        /\ StrategyEnv.committer_list[i].login = body[1].pull_request.user_login
        /\ StrategyEnv.committer_list[i].permissions.maintain

\* The commenter is among the maintainers of the package of file k
Maintains(k) ==
    body[1].commenter_id \in
        {m.github_id : m \in Range(StrategyEnv.package_maintainers[StrategyEnv.files[k]])}

Unmaintained == {k \in 1..Len(StrategyEnv.files) : ~Maintains(k)}

IsFilesRequest(r) == r.method = "GET" /\ Last(r.path) = "files"

\* C21: when the technical-limits precheck fails the strategy declines with
\* the precheck's reasons and makes no further API call; otherwise it
\* approves exactly when the author is a collaborator with the maintain
\* permission and the commenter maintains the package of every changed
\* file; a failed author test adds "pr author is not committer" and the
\* changed files are not fetched; each changed file the commenter does not
\* maintain adds one reason.
C21_CommitterStrategy ==
    StrategyRan =>
        LET pre == StrategyEnv.precheck
            out == response[1]
            added == Len(out.decline_reasons) - Len(pre.decline_reasons)
        IN  IF ~pre.result
            THEN /\ ~out.result
                 /\ out.decline_reasons = pre.decline_reasons
                 /\ requests = <<>>
            ELSE /\ out.result <=> (AuthorIsCommitter /\ Unmaintained = {})
                 /\ SubSeq(out.decline_reasons, 1, Len(pre.decline_reasons))
                        = pre.decline_reasons
                 /\ ~AuthorIsCommitter =>
                        /\ added = 1
                        /\ Last(out.decline_reasons) = <<"pr author is not committer">>
                        /\ \A i \in 1..Len(requests) : ~IsFilesRequest(requests[i])
                 /\ AuthorIsCommitter =>
                        /\ added = Cardinality(Unmaintained)
                        /\ \E i \in 1..Len(requests) : IsFilesRequest(requests[i])

\* C21 witness: the precheck passed, the author is a committer, and the
\* commenter maintains one of the two changed files and not the other, so
\* the strategy declined with one reason.
C21_Witness ==
    /\ StrategyRan
    /\ StrategyEnv.precheck.result
    /\ AuthorIsCommitter
    /\ Len(StrategyEnv.files) = 2
    /\ Cardinality(Unmaintained) = 1
    /\ ~response[1].result
    /\ Len(response[1].decline_reasons) = 1

----------------------------------------------------------------------------
(* One comment for each answer *)

MergeCommandAnswers == {"merge-postponed", "merged", "merge-failed", "not-permitted"}

\* merge_command ran on the delivery and returned a response
MergeCommandReturned ==
    /\ Handled
    /\ trace[1].entered
    /\ response[1].status = 200

\* The comments of this invocation posted to the pull request of the delivery
CommentsOnPullRequest ==
    {i \in CommentRequests :
        requests[i].path = <<"repos", body[1].repository.owner.login, body[1].repository.name,
                             "issues", ToString(body[1].issue.number), "comments">>}

\* C22: every invocation of merge_command that returns a response has posted
\* exactly one comment to the pull request, whichever of merge-postponed,
\* merged, merge-failed or not-permitted it answers and however many decline
\* reasons it collected.
C22_OneCommentPerAnswer ==
    MergeCommandReturned =>
        /\ response[1].action \in MergeCommandAnswers
        /\ Cardinality(CommentRequests) = 1
        /\ CommentsOnPullRequest = CommentRequests

\* C22 witness: a decline with two reasons was answered with one comment.
C22_Witness ==
    /\ MergeCommandReturned
    /\ response[1].action = "not-permitted"
    /\ Len(trace[1].decline_reasons) >= 2
    /\ Cardinality(CommentsOnPullRequest) = 1

====
